---- MODULE Spec2Model ----
(***************************************************************************)
(* Session caching and MFA session exchange of boto_assume_role_with_mfa.  *)
(*                                                                         *)
(* Python values are modelled as records, so that values of different      *)
(* Python types can be compared:                                           *)
(*   None                  [t |-> "NoneType"]                              *)
(*   a str                 [t |-> "str", s |-> "..."]                      *)
(*   an aware datetime     [t |-> "datetime", v |-> ticks]                 *)
(*   a timestamp string    [t |-> "str", v |-> whole seconds]              *)
(*   a session dict        [Credentials |-> [AccessKeyId, Expiration]]     *)
(*   an exception          [exc |-> "...", ...]                            *)
(* Text that the code splits or formats (ARNs, account ids, serial         *)
(* numbers) is a sequence of one-character strings.                        *)
(***************************************************************************)
EXTENDS Integers, Sequences, FiniteSets

\* ---------------------------------------------------------------- bounds
\* The clock runs from 0 to MaxTime ticks.
MaxTime == 2
\* The STS client answers at most MaxCalls get_session_token requests.
MaxCalls == 2

\* A timestamp string has a resolution of one second ("%Y-%m-%dT%H:%M:%S%Z"),
\* a datetime a finer one: TicksPerSecond ticks of the clock make one second.
TicksPerSecond == 2

\* The texts handed to the ARN parser have at most MaxArnLen characters.
MaxArnLen == 8

\* ---------------------------------------------------------------- values
None == [t |-> "NoneType"]

Str(s) == [t |-> "str", s |-> s]

Datetime(v) == [t |-> "datetime", v |-> v]

TimeString(secs) == [t |-> "str", v |-> secs]

Expirations ==
    {Datetime(v) : v \in 0..MaxTime} \cup
    {TimeString(s) : s \in 0..(MaxTime \div TicksPerSecond)}

AccessKeyIds == {"temporary_access_key_id", "other_access_key_id"}

\* The secret key and the session token that go with an access key id.
SecretAccessKeyOf(k) ==
    IF k = "temporary_access_key_id" THEN "temporary_secret_access_key"
    ELSE "other_secret_access_key"

SessionTokenOf(k) == IF k = "temporary_access_key_id" THEN "token" ELSE "other_token"

SessionData(k, e) ==
    [Credentials |-> [AccessKeyId |-> k, SecretAccessKey |-> SecretAccessKeyOf(k),
                      SessionToken |-> SessionTokenOf(k), Expiration |-> e]]

Sessions == {SessionData(k, e) : k \in AccessKeyIds, e \in Expirations}

SESSION_KEY == "temporary_session"

Keys == {SESSION_KEY, "key"}

MFA_SESSION_DURATION == [days |-> 0, seconds |-> 12 * 3600]

MfaTokens == {None, Str(""), Str("token")}

InputCodes == {Str("654321")}

\* Identity ARNs: without a '/', with one, with several, and ending in one.
Arns ==
    {<<"a", "r", "n">>, <<"u", "/", "f">>, <<"u", "/", "p", "/", "f">>, <<"u", "/">>}

Accounts == {<<"1", "2">>}

Identities == [Arn : Arns, Account : Accounts]

\* What a call gives back: a value, or an exception it raised.
Return(v) == [raised |-> FALSE, value |-> v]

Raise(e) == [raised |-> TRUE, value |-> e]

ClientError(operation) == [exc |-> "ClientError", operation_name |-> operation]

KeyError(key) == [exc |-> "KeyError", key |-> key]

\* The answers the STS client (the real service, or a mock) can give.
CallerIdentityOutcomes ==
    {Return(i) : i \in Identities} \cup {Raise(ClientError("GetCallerIdentity"))}

SessionTokenOutcomes ==
    {Return(s) : s \in Sessions} \cup {Raise(ClientError("GetSessionToken"))}

\* ----------------------------------------------------------------- state
VARIABLES
    cache,      \* the store behind SessionCache: a dict from keys to session data
    now,        \* the current UTC time, in ticks
    gst_calls,  \* how many times sts_client.get_session_token has been called
    last,       \* the most recent call on SessionCache, the factory or a provider
    mfa_provider,       \* the MFASessionProvider: its fields, None before it is built
    sso_provider,       \* the SSOSessionProvider: its fields, None before it is built
    assume_role_calls,  \* how many times assume_role has been called on an STS client
    calls               \* the factory calls under way, when they run side by side

vars == <<cache, now, gst_calls, last, mfa_provider, sso_provider, assume_role_calls,
          calls>>

\* What the session cache and its factory leave alone.
others == <<mfa_provider, sso_provider, assume_role_calls, calls>>

\* ----------------------------------------------------------- the cache store
\* cache[key]: the store's __getitem__, which raises KeyError on a missing key.
getitem(c, key) ==
    IF key \in DOMAIN c THEN Return(c[key]) ELSE Raise(KeyError(key))

\* cache[key] = value: the store's __setitem__.
setitem(c, key, value) ==
    [k \in DOMAIN c \cup {key} |-> IF k = key THEN value ELSE c[k]]

EmptyCache == [k \in {} |-> None]

\* --------------------------------------------------------- Python built-ins
\* A truth test that takes only None for false.
Truthy_only_none(v) == v # None

\* Truth value of an Optional[str] or Optional[dict]: None and "" are false.
Truthy(v) == ~(v = None \/ v = Str(""))

isinstance_str(v) == v.t = "str"

\* dateutil.parser.parse on a timestamp string: the datetime of that second.
parse(timestr) == Datetime(timestr.v * TicksPerSecond)

\* The index of the first sep in s, 0 when s holds none.
find(s, sep) ==
    IF \E i \in 1..Len(s) : s[i] = sep
    THEN CHOOSE i \in 1..Len(s) : s[i] = sep /\ \A j \in 1..(i - 1) : s[j] # sep
    ELSE 0

\* str.split(sep): the pieces of s between the occurrences of sep.
RECURSIVE split(_, _)
split(s, sep) ==
    LET i == find(s, sep)
    IN  IF i = 0 THEN <<s>>
        ELSE <<SubSeq(s, 1, i - 1)>> \o split(SubSeq(s, i + 1, Len(s)), sep)

\* logger.info(msg, ...): one line of the log, with the values it formats.
Info(msg, args) == [msg |-> msg, args |-> args]

\* ------------------------------------------------------------ SessionCache
\* _is_expired with the comparison the wrong way round.
_is_expired_reversed(session_data, utcnow) ==
    LET expiration == session_data.Credentials.Expiration
        parsed == IF isinstance_str(expiration) THEN parse(expiration) ELSE expiration
        expired == parsed.v > utcnow
    IN  [expired |-> expired,
         log |-> <<Info("Session expires at %s, currently %s, expired:%s",
                        [expiration |-> parsed, now |-> Datetime(utcnow),
                         expired |-> expired])>>]

\* _is_expired: its verdict, and what it logs.
_is_expired(session_data, utcnow) ==
    LET expiration == session_data.Credentials.Expiration
        parsed == IF isinstance_str(expiration) THEN parse(expiration) ELSE expiration
        expired == parsed.v < utcnow
    IN  [expired |-> expired,
         log |-> <<Info("Session expires at %s, currently %s, expired:%s",
                        [expiration |-> parsed, now |-> Datetime(utcnow),
                         expired |-> expired])>>]

\* _get_cached_session without the except clause: the KeyError escapes.
_get_cached_session_uncaught(c, key) == [outcome |-> getitem(c, key), log |-> <<>>]

\* _get_cached_session handing out the entry with its expiration parsed.
_get_cached_session_parsing(c, key) ==
    LET got == getitem(c, key)
        e == got.value.Credentials.Expiration
    IN  IF got.raised
        THEN [outcome |-> Return(None),
              log |-> <<Info("No session found in cache for %s", [key |-> key])>>]
        ELSE [outcome |-> Return([got.value EXCEPT !.Credentials.Expiration =
                                      IF isinstance_str(e) THEN parse(e) ELSE e]),
              log |-> <<>>]

\* _get_cached_session: what it gives back, and what it logs.
_get_cached_session(c, key) ==
    LET got == getitem(c, key)
    IN  IF got.raised /\ got.value.exc = "KeyError"
        THEN [outcome |-> Return(None),
              log |-> <<Info("No session found in cache for %s", [key |-> key])>>]
        ELSE [outcome |-> got, log |-> <<>>]

\* SessionCache.get_session_token dropping the entry it finds expired.
SessionCache_get_session_token_evicting(c, key, utcnow) ==
    LET got == _get_cached_session(c, key)
        session_data == got.outcome.value
        checked == _is_expired(session_data, utcnow)
        found == <<Info("Found unexpired session data in cache: %s", [key |-> key])>>
    IN  IF got.outcome.raised THEN [cache |-> c, outcome |-> got.outcome, log |-> got.log]
        ELSE IF ~Truthy(session_data)
        THEN [cache |-> c, outcome |-> Return(session_data), log |-> got.log \o found]
        ELSE IF checked.expired
        THEN [cache |-> [k \in DOMAIN c \ {key} |-> c[k]], outcome |-> Return(None),
              log |-> got.log \o checked.log \o
                  <<Info("No session cache (or existing has expired)", [none |-> TRUE])>>]
        ELSE [cache |-> c, outcome |-> Return(session_data),
              log |-> got.log \o checked.log \o found]

\* SessionCache.get_session_token: the store it leaves, what it gives back and
\* what it logs.
SessionCache_get_session_token(c, key, utcnow) ==
    LET got == _get_cached_session(c, key)
        session_data == got.outcome.value
        checked == _is_expired(session_data, utcnow)
        found == <<Info("Found unexpired session data in cache: %s", [key |-> key])>>
    IN  IF got.outcome.raised THEN [cache |-> c, outcome |-> got.outcome, log |-> got.log]
        ELSE IF ~Truthy(session_data)
        THEN [cache |-> c, outcome |-> Return(session_data), log |-> got.log \o found]
        ELSE IF checked.expired
        THEN [cache |-> c, outcome |-> Return(None),
              log |-> got.log \o checked.log \o
                  <<Info("No session cache (or existing has expired)", [none |-> TRUE])>>]
        ELSE [cache |-> c, outcome |-> Return(session_data),
              log |-> got.log \o checked.log \o found]

\* cache_session that stores nothing.
cache_session_dropped(c, key, data) == c

\* cache_session keeping the entry a key already has.
cache_session_if_absent(c, key, data) ==
    IF key \in DOMAIN c THEN c ELSE setitem(c, key, data)

\* SessionCache.cache_session: the store it leaves.
cache_session(c, key, data) == setitem(c, key, data)

\* ------------------------------------------------- CachedMfaSessionFactory
\* _get_account_and_user taking the part of the ARN before its first '/'.
_get_account_and_user_first(identity) ==
    IF identity.raised THEN identity
    ELSE Return(<<identity.value.Account, split(identity.value.Arn, "/")[1]>>)

\* _get_account_and_user swallowing the failure of get_caller_identity.
_get_account_and_user_swallowing(identity) ==
    IF identity.raised THEN Return(<<<<>>, <<>>>>)
    ELSE LET pieces == split(identity.value.Arn, "/")
         IN  Return(<<identity.value.Account, pieces[Len(pieces)]>>)

\* _get_account_and_user, given the answer of sts_client.get_caller_identity().
_get_account_and_user(identity) ==
    IF identity.raised THEN identity
    ELSE LET arn == identity.value.Arn
             pieces == split(arn, "/")
         IN  Return(<<identity.value.Account, pieces[Len(pieces)]>>)

\* f"arn:aws:iam::{account}:mfa/{user}"
SerialNumber(account, user) ==
    <<"a", "r", "n", ":", "a", "w", "s", ":", "i", "a", "m", ":", ":">> \o account
        \o <<":", "m", "f", "a", "/">> \o user

\* The calls a factory call makes on its collaborators, in order, each with
\* what it was given and what it gave back.
InputEvent(code) == [call |-> "input", ret |-> Return(code)]

CallerIdentityEvent(answer) == [call |-> "sts.get_caller_identity", ret |-> answer]

SessionTokenEvent(duration, serial, code, answer) ==
    [call |-> "sts.get_session_token", DurationSeconds |-> duration,
     SerialNumber |-> serial, TokenCode |-> code, ret |-> answer]

CacheReadEvent(key, answer) ==
    [call |-> "session_cache.get_session_token", key |-> key, ret |-> answer]

CacheWriteEvent(key, data) ==
    [call |-> "session_cache.cache_session", key |-> key, data |-> data]

\* _create_session: every way it can go, one for each answer the prompt
\* (input), get_caller_identity and get_session_token can give.
_create_session(c, mfa_token) ==
    LET prompted == ~Truthy(mfa_token)
        codes == IF prompted THEN InputCodes ELSE {mfa_token}
        asked(code) == IF prompted THEN <<InputEvent(code)>> ELSE <<>>
        log == IF prompted
               THEN <<Info("No session for:%s, prompt for MFA", [key |-> SESSION_KEY])>>
               ELSE <<>>
        exchange(code, identity, au) ==
            LET identified == asked(code) \o <<CallerIdentityEvent(identity)>>
                sent(session_data) == identified \o
                    <<SessionTokenEvent(MFA_SESSION_DURATION.seconds,
                                        SerialNumber(au[1], au[2]),
                                        code, session_data)>>
            IN  {IF session_data.raised
                 THEN [cache |-> c, outcome |-> session_data,
                       events |-> sent(session_data), log |-> log]
                 ELSE [cache |-> cache_session(c, SESSION_KEY, session_data.value),
                       outcome |-> Return(session_data.value),
                       events |-> sent(session_data) \o
                           <<CacheWriteEvent(SESSION_KEY, session_data.value)>>,
                       log |-> log]
                 : session_data \in SessionTokenOutcomes}
        identify(code, identity) ==
            LET au == _get_account_and_user(identity)
            IN  IF au.raised
                THEN {[cache |-> c, outcome |-> au,
                       events |-> asked(code) \o <<CallerIdentityEvent(identity)>>,
                       log |-> log]}
                ELSE exchange(code, identity, au.value)
    IN  UNION {identify(code, identity) :
                   code \in codes, identity \in CallerIdentityOutcomes}

\* The factory looking its session up under another key than it stores it under.
Factory_get_session_token_other_key(c, utcnow, mfa_token) ==
    LET looked == SessionCache_get_session_token(c, "key", utcnow)
        read == <<CacheReadEvent("key", looked.outcome)>>
        hit == [cache |-> looked.cache, outcome |-> looked.outcome,
                events |-> read, log |-> looked.log]
    IN  IF looked.outcome.raised THEN {hit}
        ELSE IF Truthy(looked.outcome.value) THEN {hit}
        ELSE {[made EXCEPT !.events = read \o @, !.log = looked.log \o @] :
                  made \in _create_session(looked.cache, mfa_token)}

\* CachedMfaSessionFactory.get_session_token: every way the call can go.
Factory_get_session_token(c, utcnow, mfa_token) ==
    LET looked == SessionCache_get_session_token(c, SESSION_KEY, utcnow)
        read == <<CacheReadEvent(SESSION_KEY, looked.outcome)>>
        hit == [cache |-> looked.cache, outcome |-> looked.outcome,
                events |-> read, log |-> looked.log]
    IN  IF looked.outcome.raised THEN {hit}
        ELSE IF Truthy(looked.outcome.value) THEN {hit}
        ELSE {[made EXCEPT !.events = read \o @, !.log = looked.log \o @] :
                  made \in _create_session(looked.cache, mfa_token)}

\* How many get_session_token requests a call sent to the STS client.
Exchanges(events) ==
    Cardinality({i \in 1..Len(events) : events[i].call = "sts.get_session_token"})

\* ---------------------------------------------------------------- actions
\* The stores a program can start with: an empty one, or one loaded from the
\* JSON file an earlier run left, in which every expiration is a string.
StoredSessions == {s \in Sessions : isinstance_str(s.Credentials.Expiration)}

InitialCaches == UNION {[S -> StoredSessions] : S \in SUBSET Keys}

\* No provider is built, and no factory call is under way.
NothingElse ==
    /\ mfa_provider = None
    /\ sso_provider = None
    /\ assume_role_calls = 0
    /\ calls = <<>>

Init ==
    /\ cache \in InitialCaches
    /\ now = 0
    /\ gst_calls = 0
    /\ last = [op |-> "init"]
    /\ NothingElse

\* What a call record keeps of the call before it: which operation it was
\* and, for cache_session, what it stored where.
Before(call) ==
    IF call.op = "SessionCache.cache_session"
    THEN [op |-> call.op, key |-> call.key, data |-> call.data]
    ELSE [op |-> call.op]

\* Time passes.
Tick ==
    /\ now < MaxTime
    /\ now' = now + 1
    /\ UNCHANGED <<cache, gst_calls, last>>
    /\ UNCHANGED others

\* session_cache.get_session_token(key=key)
GetSessionToken(key) ==
    LET r == SessionCache_get_session_token(cache, key, now)
    IN  /\ cache' = r.cache
        /\ last' = [op |-> "SessionCache.get_session_token", key |-> key,
                    at |-> now, after |-> Before(last),
                    outcome |-> r.outcome, log |-> r.log]
        /\ UNCHANGED <<now, gst_calls>>
        /\ UNCHANGED others

\* session_cache.cache_session(key=key, data=data)
CacheSession(key, data) ==
    /\ cache' = cache_session(cache, key, data)
    /\ last' = [op |-> "SessionCache.cache_session", key |-> key, data |-> data,
                at |-> now, after |-> Before(last), outcome |-> Return(None)]
    /\ UNCHANGED <<now, gst_calls>>
    /\ UNCHANGED others

\* cached_mfa_session_factory.get_session_token(mfa_token=mfa_token)
FactoryGetSessionToken(mfa_token) ==
    \E r \in Factory_get_session_token(cache, now, mfa_token) :
        /\ gst_calls + Exchanges(r.events) <= MaxCalls
        /\ cache' = r.cache
        /\ gst_calls' = gst_calls + Exchanges(r.events)
        /\ last' = [op |-> "CachedMfaSessionFactory.get_session_token",
                    mfa_token |-> mfa_token, at |-> now, after |-> Before(last),
                    outcome |-> r.outcome, events |-> r.events, log |-> r.log]
        /\ UNCHANGED now
        /\ UNCHANGED others

\* The factory and its session cache, as MFASessionProvider.create wires them:
\* the cache is reached through the factory alone.
Next ==
    \/ Tick
    \/ \E mfa_token \in MfaTokens : FactoryGetSessionToken(mfa_token)

Spec == Init /\ [][Next]_vars

\* The same, started on an empty store.
InitCold ==
    /\ cache = EmptyCache
    /\ now = 0
    /\ gst_calls = 0
    /\ last = [op |-> "init"]
    /\ NothingElse

SpecCold == InitCold /\ [][Next]_vars

\* The session cache on its own, called directly.
NextCache ==
    \/ Tick
    \/ \E key \in Keys : GetSessionToken(key)
    \/ \E key \in Keys, data \in Sessions : CacheSession(key, data)

SpecCache == Init /\ [][NextCache]_vars

\* The session cache called directly for lookups, next to a factory that
\* refreshes it.
NextStore ==
    \/ Tick
    \/ \E key \in Keys : GetSessionToken(key)
    \/ FactoryGetSessionToken(Str("token"))

SpecStore == Init /\ [][NextStore]_vars

\* ------------------------------------------- factory calls side by side
\* Two calls of CachedMfaSessionFactory.get_session_token run side by side on
\* one session cache. A call touches the cache twice, at its lookup (line 97)
\* and at its write (line 113); between the two it talks to the user and to
\* STS. Each of the three is a step, and the steps of the two calls interleave
\* freely.
Invocations == {1, 2}

RaceTokens == {None, Str("token")}

\* A call that has not begun.
Begun(mfa_token) ==
    [pc |-> "lookup", mfa_token |-> mfa_token, outcome |-> Return(None),
     events |-> <<>>]

InitRace ==
    /\ cache = EmptyCache
    /\ now = 0
    /\ gst_calls = 0
    /\ last = [op |-> "interleaving", steps |-> <<>>]
    /\ mfa_provider = None
    /\ sso_provider = None
    /\ assume_role_calls = 0
    /\ calls \in [Invocations -> {Begun(mfa_token) : mfa_token \in RaceTokens}]

\* The step `pc` of invocation p has been taken.
Stepped(p, pc) ==
    /\ last' = [last EXCEPT !.steps = Append(@, [invocation |-> p, pc |-> pc])]
    /\ UNCHANGED <<now, mfa_provider, sso_provider, assume_role_calls>>

\* Line 97: session_data = self._session_cache.get_session_token(key=SESSION_KEY),
\* and the return of line 100 when it found a session.
Lookup(p) ==
    /\ calls[p].pc = "lookup"
    /\ LET looked == SessionCache_get_session_token(cache, SESSION_KEY, now)
           read == <<CacheReadEvent(SESSION_KEY, looked.outcome)>>
           found == looked.outcome.raised \/ Truthy(looked.outcome.value)
       IN  /\ cache' = looked.cache
           /\ calls' = [calls EXCEPT ![p] =
                            [@ EXCEPT !.pc = IF found THEN "done" ELSE "create",
                                      !.outcome = looked.outcome,
                                      !.events = read]]
    /\ UNCHANGED gst_calls
    /\ Stepped(p, "lookup")

\* Lines 103 to 112 of _create_session: the prompt, get_caller_identity and
\* get_session_token. A failure ends the call.
Exchange(p) ==
    /\ calls[p].pc = "create"
    /\ \E r \in _create_session(cache, calls[p].mfa_token) :
           LET remote == SelectSeq(r.events,
                                   LAMBDA e : e.call # "session_cache.cache_session")
           IN  /\ gst_calls + Exchanges(remote) <= MaxCalls
               /\ gst_calls' = gst_calls + Exchanges(remote)
               /\ calls' = [calls EXCEPT ![p] =
                                [@ EXCEPT !.pc = IF r.outcome.raised THEN "done"
                                                 ELSE "store",
                                          !.outcome = r.outcome,
                                          !.events = @ \o remote]]
    /\ UNCHANGED cache
    /\ Stepped(p, "create")

\* Lines 113 and 114 of _create_session: cache_session on the store as it is
\* by now, and the return of the session data.
Store(p) ==
    /\ calls[p].pc = "store"
    /\ LET session_data == calls[p].outcome.value
       IN  /\ cache' = cache_session(cache, SESSION_KEY, session_data)
           /\ calls' = [calls EXCEPT ![p] =
                            [@ EXCEPT !.pc = "done",
                                      !.events = @ \o
                                          <<CacheWriteEvent(SESSION_KEY, session_data)>>]]
    /\ UNCHANGED gst_calls
    /\ Stepped(p, "store")

NextRace ==
    \/ \E p \in Invocations : Lookup(p)
    \/ \E p \in Invocations : Exchange(p)
    \/ \E p \in Invocations : Store(p)

SpecRace == InitRace /\ [][NextRace]_vars

\* ------------------------------------------------------ MFASessionProvider
ASSUME_ROLE_SESSION_DURATION == [days |-> 0, seconds |-> 1 * 3600]

\* f"arn:aws:iam::{account}:role/{name}"
RoleArn(account, name) ==
    <<"a", "r", "n", ":", "a", "w", "s", ":", "i", "a", "m", ":", ":">> \o account
        \o <<":", "r", "o", "l", "e", "/">> \o name

\* Role names: a plain one, and one with a path.
RoleNames == {<<"r">>, <<"c", "/", "d">>}

RoleArns == {RoleArn(account, name) : account \in Accounts, name \in RoleNames}

\* Region names a caller passes: a region, and the empty string.
RegionNames == {Str("us-east-1"), Str("")}

SessionNames == {Str("test"), Str("session")}

\* What sts.assume_role can answer: a response with the role's credentials,
\* or a failure.
AssumeRoleOutcomes ==
    {Return(SessionData(k, Datetime(v))) :
         k \in {"role_access_key_id"}, v \in 0..MaxTime}
        \cup {Raise(ClientError("AssumeRole"))}

\* boto3's Session(**session_properties): a session handle.
Session(session_properties) == [t |-> "Session", properties |-> session_properties]

SessionEvent(session) == [call |-> "boto3.Session", ret |-> Return(session)]

\* session.client("sts").assume_role(...), on the client of the given session.
AssumeRoleEvent(session, role_arn, session_name, duration, answer) ==
    [call |-> "sts.assume_role", session |-> session, RoleArn |-> role_arn,
     RoleSessionName |-> session_name, DurationSeconds |-> duration, ret |-> answer]

\* session.client("sts").get_caller_identity(), on the client of the given session.
SessionCallerIdentityEvent(session, answer) ==
    [call |-> "sts.get_caller_identity", session |-> session, ret |-> answer]

\* MFASessionProvider(session_data=session_data)
MFASessionProvider(session_data) == [_session_data |-> session_data]

\* temporary_credentials handing out the whole session record.
MFA_temporary_credentials_whole(self) == Return(self._session_data)

\* MFASessionProvider.temporary_credentials
MFA_temporary_credentials(self) == Return(self._session_data.Credentials)

\* MFASessionProvider._get_session_from
_get_session_from(aws_access_key_id, aws_secret_access_key, aws_session_token, region_name) ==
    LET names == {"aws_access_key_id", "aws_secret_access_key"}
                 \cup (IF Truthy(aws_session_token) THEN {"aws_session_token"} ELSE {})
                 \cup (IF Truthy(region_name) THEN {"region_name"} ELSE {})
    IN  Session([n \in names |->
                     CASE n = "aws_access_key_id" -> aws_access_key_id
                       [] n = "aws_secret_access_key" -> aws_secret_access_key
                       [] n = "aws_session_token" -> aws_session_token
                       [] n = "region_name" -> region_name])

\* The session built from a credentials dict, as both callers of
\* _get_session_from build it.
SessionOf(credentials, region_name) ==
    _get_session_from(Str(credentials.AccessKeyId), Str(credentials.SecretAccessKey),
                      Str(credentials.SessionToken), region_name)

\* MFASessionProvider._create_temporary_session
_create_temporary_session(self, region_name) ==
    SessionOf(self._session_data.Credentials, region_name)

\* assume_role_credentials asking for the duration of the MFA session.
MFA_assume_role_credentials_long(self, role_arn, region_name, session_name) ==
    LET temp_session == _create_temporary_session(self, region_name)
    IN  {[outcome |-> IF session_data.raised THEN session_data
                      ELSE Return(session_data.value.Credentials),
          events |-> <<SessionEvent(temp_session),
                       AssumeRoleEvent(temp_session, role_arn, session_name,
                                       MFA_SESSION_DURATION.seconds, session_data)>>]
         : session_data \in AssumeRoleOutcomes}

\* MFASessionProvider.assume_role_credentials: every way the call can go, one
\* for each answer of assume_role.
MFA_assume_role_credentials(self, role_arn, region_name, session_name) ==
    LET temp_session == _create_temporary_session(self, region_name)
    IN  {[outcome |-> IF session_data.raised THEN session_data
                      ELSE Return(session_data.value.Credentials),
          events |-> <<SessionEvent(temp_session),
                       AssumeRoleEvent(temp_session, role_arn, session_name,
                                       ASSUME_ROLE_SESSION_DURATION.seconds,
                                       session_data)>>]
         : session_data \in AssumeRoleOutcomes}

\* assume_role_session falling back on the base session when the role cannot
\* be assumed.
MFA_assume_role_session_masking(self, role_arn, region_name, session_name) ==
    {LET credentials == IF role_credentials.outcome.raised
                        THEN self._session_data.Credentials
                        ELSE role_credentials.outcome.value
         session == SessionOf(credentials, region_name)
     IN  [outcome |-> Return(session),
          events |-> role_credentials.events \o <<SessionEvent(session)>>]
     : role_credentials \in
           MFA_assume_role_credentials(self, role_arn, region_name, session_name)}

\* MFASessionProvider.assume_role_session: every way the call can go.
MFA_assume_role_session(self, role_arn, region_name, session_name) ==
    {IF role_credentials.outcome.raised THEN role_credentials
     ELSE LET session == SessionOf(role_credentials.outcome.value, region_name)
          IN  [outcome |-> Return(session),
               events |-> role_credentials.events \o <<SessionEvent(session)>>]
     : role_credentials \in
           MFA_assume_role_credentials(self, role_arn, region_name, session_name)}

\* MFASessionProvider.get_user: every way the call can go, one for each answer
\* of get_caller_identity.
MFA_get_user(self) ==
    LET temp_session == _create_temporary_session(self, Str("eu-west-1"))
    IN  {LET au == _get_account_and_user(identity)
         IN  [outcome |-> IF au.raised THEN au ELSE Return(au.value[2]),
              events |-> <<SessionEvent(temp_session),
                           SessionCallerIdentityEvent(temp_session, identity)>>]
         : identity \in CallerIdentityOutcomes}

\* How many assume_role requests a call sent to an STS client.
AssumeRoles(events) ==
    Cardinality({i \in 1..Len(events) : events[i].call = "sts.assume_role"})

\* MFASessionProvider.create(profile_name=...): the base session comes from the
\* factory, which prompts for the MFA code when the cache has no valid session.
Create ==
    /\ mfa_provider = None
    /\ \E r \in Factory_get_session_token(cache, now, None) :
        /\ gst_calls + Exchanges(r.events) <= MaxCalls
        /\ cache' = r.cache
        /\ gst_calls' = gst_calls + Exchanges(r.events)
        /\ mfa_provider' = IF r.outcome.raised THEN None
                           ELSE MFASessionProvider(r.outcome.value)
        /\ last' = [op |-> "MFASessionProvider.create", at |-> now,
                    outcome |-> IF r.outcome.raised THEN r.outcome
                                ELSE Return(MFASessionProvider(r.outcome.value)),
                    events |-> r.events]
        /\ UNCHANGED <<now, sso_provider, assume_role_calls, calls>>

\* What a call on the provider leaves alone, and how it counts its requests.
ProviderCall(events) ==
    /\ assume_role_calls + AssumeRoles(events) <= MaxCalls
    /\ assume_role_calls' = assume_role_calls + AssumeRoles(events)
    /\ UNCHANGED <<cache, now, gst_calls, mfa_provider, sso_provider, calls>>

\* provider.temporary_credentials
TemporaryCredentials ==
    /\ mfa_provider # None
    /\ last' = [op |-> "MFASessionProvider.temporary_credentials",
                outcome |-> MFA_temporary_credentials(mfa_provider), events |-> <<>>]
    /\ ProviderCall(<<>>)

\* provider.assume_role_credentials(role_arn=..., region_name=..., session_name=...)
AssumeRoleCredentials(role_arn, region_name, session_name) ==
    /\ mfa_provider # None
    /\ \E r \in MFA_assume_role_credentials(mfa_provider, role_arn, region_name,
                                            session_name) :
        /\ last' = [op |-> "MFASessionProvider.assume_role_credentials",
                    role_arn |-> role_arn, region_name |-> region_name,
                    session_name |-> session_name,
                    outcome |-> r.outcome, events |-> r.events]
        /\ ProviderCall(r.events)

\* provider.assume_role_session(role_arn=..., region_name=..., session_name=...)
AssumeRoleSession(role_arn, region_name, session_name) ==
    /\ mfa_provider # None
    /\ \E r \in MFA_assume_role_session(mfa_provider, role_arn, region_name,
                                        session_name) :
        /\ last' = [op |-> "MFASessionProvider.assume_role_session",
                    role_arn |-> role_arn, region_name |-> region_name,
                    session_name |-> session_name,
                    outcome |-> r.outcome, events |-> r.events]
        /\ ProviderCall(r.events)

\* provider.get_user()
GetUser ==
    /\ mfa_provider # None
    /\ \E r \in MFA_get_user(mfa_provider) :
        /\ last' = [op |-> "MFASessionProvider.get_user",
                    outcome |-> r.outcome, events |-> r.events]
        /\ ProviderCall(r.events)

\* A provider made by create, and the calls on it.
NextProvider ==
    \/ Tick
    \/ Create
    \/ TemporaryCredentials
    \/ \E role_arn \in RoleArns, region_name \in RegionNames,
          session_name \in SessionNames :
           AssumeRoleCredentials(role_arn, region_name, session_name)
    \/ \E role_arn \in RoleArns, region_name \in RegionNames,
          session_name \in SessionNames :
           AssumeRoleSession(role_arn, region_name, session_name)
    \/ GetUser

\* No provider yet, and a store that holds at most the factory's entry.
InitProvider ==
    /\ cache \in {c \in InitialCaches : DOMAIN c \subseteq {SESSION_KEY}}
    /\ now = 0
    /\ gst_calls = 0
    /\ last = [op |-> "init"]
    /\ NothingElse

SpecProvider == InitProvider /\ [][NextProvider]_vars

\* The factory is called again while a provider exists, as the create of
\* another provider does.
Refresh ==
    /\ mfa_provider # None
    /\ \E r \in Factory_get_session_token(cache, now, Str("token")) :
        /\ gst_calls + Exchanges(r.events) <= MaxCalls
        /\ cache' = r.cache
        /\ gst_calls' = gst_calls + Exchanges(r.events)
        /\ last' = [op |-> "CachedMfaSessionFactory.get_session_token",
                    outcome |-> r.outcome, events |-> r.events]
        /\ UNCHANGED <<now, mfa_provider, sso_provider, assume_role_calls, calls>>

\* A provider made by create and the calls on it, while the factory goes on
\* refreshing the session cache.
NextSnapshot ==
    \/ Tick
    \/ Create
    \/ Refresh
    \/ TemporaryCredentials
    \/ \E role_arn \in RoleArns :
           AssumeRoleCredentials(role_arn, Str("us-east-1"), Str("session"))
    \/ \E role_arn \in RoleArns :
           AssumeRoleSession(role_arn, Str("us-east-1"), Str("session"))
    \/ GetUser

SpecSnapshot == InitProvider /\ [][NextSnapshot]_vars

\* --------------------------------------------------------------------- ARN
\* Indexing a list past its end.
IndexError == [exc |-> "IndexError"]

\* str.split(sep, maxsplit): as split, with at most maxsplit cuts.
RECURSIVE split_max(_, _, _)
split_max(s, sep, maxsplit) ==
    LET i == find(s, sep)
    IN  IF i = 0 \/ maxsplit = 0 THEN <<s>>
        ELSE <<SubSeq(s, 1, i - 1)>> \o
             split_max(SubSeq(s, i + 1, Len(s)), sep, maxsplit - 1)

\* ARN._get_resource that cuts the resource at every '/' and keeps the last piece.
_get_resource_last(elements) ==
    IF Len(elements) = 7 THEN Return(<<Str(elements[6]), Str(elements[7])>>)
    ELSE IF Len(elements) < 6 THEN Raise(IndexError)
    ELSE IF find(elements[6], "/") = 0 THEN Return(<<None, Str(elements[6])>>)
    ELSE LET resource == split(elements[6], "/")
         IN  Return(<<Str(resource[1]), Str(resource[Len(resource)])>>)

\* ARN._get_resource: (resource_type, resource). elements[5] of the code is
\* elements[6] here: sequences are numbered from 1.
_get_resource(elements) ==
    IF Len(elements) = 7 THEN Return(<<Str(elements[6]), Str(elements[7])>>)
    ELSE IF Len(elements) < 6 THEN Raise(IndexError)
    ELSE IF find(elements[6], "/") = 0 THEN Return(<<None, Str(elements[6])>>)
    ELSE LET resource == split_max(elements[6], "/", 1)
         IN  Return(<<Str(resource[1]), Str(resource[2])>>)

\* ARN(arn): the parsed ARN, or the IndexError of a text with too few ':'.
ARN(arn) ==
    LET elements == split(arn, ":")
        res == _get_resource(elements)
    IN  IF Len(elements) < 5 THEN Raise(IndexError)
        ELSE IF res.raised THEN res
        ELSE Return([full_arn |-> Str(arn), arn |-> Str(elements[1]),
                     partition |-> Str(elements[2]), service |-> Str(elements[3]),
                     region |-> Str(elements[4]), account |-> Str(elements[5]),
                     resource_type |-> res.value[1], resource |-> res.value[2]])

\* The ARN parser on its own: a text is drawn, then parsed.
ArnAlphabet == {"a", ":", "/"}

ArnTexts == UNION {[1..n -> ArnAlphabet] : n \in 0..MaxArnLen}

InitArn ==
    /\ cache = EmptyCache
    /\ now = 0
    /\ gst_calls = 0
    /\ last \in {[op |-> "text", arn |-> text] : text \in ArnTexts}
    /\ NothingElse

\* ARN(arn)
ParseArn ==
    /\ last.op = "text"
    /\ last' = [op |-> "ARN", arn |-> last.arn, outcome |-> ARN(last.arn)]
    /\ UNCHANGED <<cache, now, gst_calls>>
    /\ UNCHANGED others

NextArn == ParseArn

SpecArn == InitArn /\ [][NextArn]_vars

\* ------------------------------------------------------ SSOSessionProvider
NotImplementedError(message) == [exc |-> "NotImplementedError", args |-> message]

Exception(message) == [exc |-> "Exception", args |-> message]

\* A failure of the SSO login, or of a request to the SSO portal.
SsoError(function) == [exc |-> "SsoError", function |-> function]

\* The roles list_available_roles yields: (account id, account name, role name).
Roles == {<<<<"1", "2">>, <<"n">>, <<"r">>>>, <<<<"3">>, <<"m">>, <<"c", "/", "d">>>>}

\* What list_available_roles can give: no role, one, or two in either order;
\* or a failure.
RoleListings ==
    {Return(<<>>)} \cup {Return(<<r>>) : r \in Roles}
        \cup {Return(<<p[1], p[2]>>) : p \in {x \in Roles \X Roles : x[1] # x[2]}}
        \cup {Raise(SsoError("list_available_roles"))}

\* The boto3 session get_boto3_session makes for a role of an account.
SsoSession(account_id, role_name, region) ==
    [t |-> "Session", account_id |-> account_id, role_name |-> role_name,
     region |-> region,
     credentials |-> [access_key |-> "sso_access_key_id",
                      secret_key |-> "sso_secret_access_key", token |-> "sso_token"]]

\* User ids get_caller_identity can report, of one to four ':'-separated parts.
UserIds ==
    {<<"A">>, <<"A", ":", "u">>, <<"A", ":", "u", ":", "s">>,
     <<"A", ":", "u", ":", "s", ":", "x">>}

SsoCallerIdentityOutcomes ==
    {Return([UserId |-> u]) : u \in UserIds}
        \cup {Raise(ClientError("GetCallerIdentity"))}

ListRolesEvent(sso_region, start_url, login, answer) ==
    [call |-> "list_available_roles", sso_region |-> sso_region,
     start_url |-> start_url, login |-> login, ret |-> answer]

\* self.assume_role_session(role_arn=..., region_name=..., session_name=...)
AssumeRoleSessionEvent(role_arn, region_name, session_name) ==
    [call |-> "self.assume_role_session", role_arn |-> role_arn,
     region_name |-> region_name, session_name |-> session_name]

GetBoto3SessionEvent(start_url, sso_region, account_id, role_name, region, login, answer) ==
    [call |-> "get_boto3_session", start_url |-> start_url,
     sso_region |-> sso_region, account_id |-> account_id, role_name |-> role_name,
     region |-> region, login |-> login, ret |-> answer]

\* SSOSessionProvider(start_url=start_url, sso_region=sso_region)
SSOSessionProvider(start_url, sso_region) ==
    [_start_url |-> start_url, _sso_region |-> sso_region]

\* temporary_credentials answering None.
SSO_temporary_credentials_none(self) == [outcome |-> Return(None), events |-> <<>>]

\* SSOSessionProvider.temporary_credentials
SSO_temporary_credentials(self) ==
    [outcome |-> Raise(NotImplementedError("SSO session uses token, not credentials")),
     events |-> <<>>]

\* SSOSessionProvider.assume_role_session: every way the call can go, one for
\* each answer of get_boto3_session. session_name is not used.
SSO_assume_role_session(self, role_arn, region_name, session_name) ==
    LET arn == ARN(role_arn)
        sessions == {Return(SsoSession(arn.value.account, arn.value.resource,
                                       region_name)),
                     Raise(SsoError("get_boto3_session"))}
    IN  IF arn.raised THEN {[outcome |-> arn, events |-> <<>>]}
        ELSE {[outcome |-> session,
               events |-> <<GetBoto3SessionEvent(self._start_url, self._sso_region,
                                                 arn.value.account, arn.value.resource,
                                                 region_name, TRUE, session)>>]
              : session \in sessions}

\* SSOSessionProvider.assume_role_credentials: every way the call can go.
SSO_assume_role_credentials(self, role_arn, region_name, session_name) ==
    {IF session.outcome.raised THEN session
     ELSE LET credentials == session.outcome.value.credentials
          IN  [outcome |-> Return([AccessKeyId |-> credentials.access_key,
                                   SecretAccessKey |-> credentials.secret_key,
                                   SessionToken |-> credentials.token]),
               events |-> session.events]
     : session \in SSO_assume_role_session(self, role_arn, region_name, session_name)}

\* _get_any_role returning the last role of the enumeration.
_get_any_role_last(self, listing) ==
    LET listed == <<ListRolesEvent(self._sso_region, self._start_url, TRUE, listing)>>
        role == listing.value[Len(listing.value)]
    IN  IF listing.raised THEN [outcome |-> listing, events |-> listed]
        ELSE IF Len(listing.value) = 0
        THEN [outcome |-> Raise(Exception("No accessible roles found")),
              events |-> listed]
        ELSE [outcome |-> ARN(RoleArn(role[1], role[3])), events |-> listed]

\* _get_any_role falling back on a role of its own for an empty enumeration.
_get_any_role_default(self, listing) ==
    LET listed == <<ListRolesEvent(self._sso_region, self._start_url, TRUE, listing)>>
        role == IF Len(listing.value) = 0 THEN <<<<"1", "2">>, <<"n">>, <<"r">>>>
                ELSE listing.value[1]
    IN  IF listing.raised THEN [outcome |-> listing, events |-> listed]
        ELSE [outcome |-> ARN(RoleArn(role[1], role[3])), events |-> listed]

\* SSOSessionProvider._get_any_role, given what list_available_roles yields:
\* the loop returns on the first role.
_get_any_role(self, listing) ==
    LET listed == <<ListRolesEvent(self._sso_region, self._start_url, TRUE, listing)>>
        role == listing.value[1]
    IN  IF listing.raised THEN [outcome |-> listing, events |-> listed]
        ELSE IF Len(listing.value) = 0
        THEN [outcome |-> Raise(Exception("No accessible roles found")),
              events |-> listed]
        ELSE [outcome |-> ARN(RoleArn(role[1], role[3])), events |-> listed]

\* user_identity["UserId"].split(":", 2)[1]
UserOf(user_identity) ==
    LET pieces == split_max(user_identity.UserId, ":", 2)
    IN  IF Len(pieces) < 2 THEN Raise(IndexError) ELSE Return(Str(pieces[2]))

\* SSOSessionProvider.get_user: every way the call can go, one for each answer
\* of list_available_roles, get_boto3_session and get_caller_identity.
SSO_get_user(self) ==
    LET identify(role, session) ==
            {[outcome |-> IF identity.raised THEN identity ELSE UserOf(identity.value),
              events |-> role.events \o session.events \o
                  <<SessionCallerIdentityEvent(session.outcome.value, identity)>>]
             : identity \in SsoCallerIdentityOutcomes}
        assume(role) ==
            LET full_arn == role.outcome.value.full_arn.s
                called == <<AssumeRoleSessionEvent(Str(full_arn), Str("eu-west-1"),
                                                   Str("test"))>>
            IN  UNION {LET s == [session EXCEPT !.events = called \o @]
                       IN  IF s.outcome.raised
                           THEN {[outcome |-> s.outcome,
                                  events |-> role.events \o s.events]}
                           ELSE identify(role, s)
                       : session \in SSO_assume_role_session(
                                         self, full_arn, Str("eu-west-1"), Str("test"))}
    IN  UNION {LET role == _get_any_role(self, listing)
               IN  IF role.outcome.raised THEN {role} ELSE assume(role)
               : listing \in RoleListings}

StartUrls == {Str("https://example.awsapps.com/start")}

SsoRegions == {Str("eu-north-1"), Str("eu-west-1")}

\* Role ARNs a caller passes: well-formed ones, and a text that is no ARN.
SsoRoleArns == RoleArns \cup {<<"a", "r", "n">>}

\* An SSO provider, as its constructor leaves it.
InitSso ==
    /\ cache = EmptyCache
    /\ now = 0
    /\ gst_calls = 0
    /\ last = [op |-> "init"]
    /\ mfa_provider = None
    /\ sso_provider \in {SSOSessionProvider(start_url, sso_region) :
                             start_url \in StartUrls, sso_region \in SsoRegions}
    /\ assume_role_calls = 0
    /\ calls = <<>>

\* What a call on the SSO provider leaves alone.
SsoCall ==
    UNCHANGED <<cache, now, gst_calls, mfa_provider, sso_provider, assume_role_calls,
                calls>>

\* provider.temporary_credentials
SsoTemporaryCredentials ==
    LET r == SSO_temporary_credentials(sso_provider)
    IN  /\ last' = [op |-> "SSOSessionProvider.temporary_credentials",
                    after |-> last.op, outcome |-> r.outcome, events |-> r.events]
        /\ SsoCall

\* provider.assume_role_session(role_arn=..., region_name=..., session_name=...)
SsoAssumeRoleSession(role_arn, region_name, session_name) ==
    \E r \in SSO_assume_role_session(sso_provider, role_arn, region_name,
                                     session_name) :
        /\ last' = [op |-> "SSOSessionProvider.assume_role_session",
                    role_arn |-> role_arn, region_name |-> region_name,
                    session_name |-> session_name, after |-> last.op,
                    outcome |-> r.outcome, events |-> r.events]
        /\ SsoCall

\* provider.assume_role_credentials(role_arn=..., region_name=..., session_name=...)
SsoAssumeRoleCredentials(role_arn, region_name, session_name) ==
    \E r \in SSO_assume_role_credentials(sso_provider, role_arn, region_name,
                                         session_name) :
        /\ last' = [op |-> "SSOSessionProvider.assume_role_credentials",
                    role_arn |-> role_arn, region_name |-> region_name,
                    session_name |-> session_name, after |-> last.op,
                    outcome |-> r.outcome, events |-> r.events]
        /\ SsoCall

\* provider.get_user()
SsoGetUser ==
    \E r \in SSO_get_user(sso_provider) :
        /\ last' = [op |-> "SSOSessionProvider.get_user", after |-> last.op,
                    outcome |-> r.outcome, events |-> r.events]
        /\ SsoCall

NextSso ==
    \/ SsoTemporaryCredentials
    \/ \E role_arn \in SsoRoleArns, region_name \in RegionNames,
          session_name \in SessionNames :
           SsoAssumeRoleSession(role_arn, region_name, session_name)
    \/ \E role_arn \in SsoRoleArns, region_name \in RegionNames,
          session_name \in SessionNames :
           SsoAssumeRoleCredentials(role_arn, region_name, session_name)
    \/ SsoGetUser

SpecSso == InitSso /\ [][NextSso]_vars

\* ----------------------------------------------------------------- claims
FACTORY == "CachedMfaSessionFactory.get_session_token"

GET == "SessionCache.get_session_token"

CACHE_SESSION == "SessionCache.cache_session"

\* The step is a call of op (and not the passing of time).
Called(op) == now' = now /\ last'.op = op

\* The instant a session expires at, in ticks, however its expiration is held.
ExpirationInstant(session_data) ==
    LET e == session_data.Credentials.Expiration
    IN  IF e.t = "str" THEN e.v * TicksPerSecond ELSE e.v

\* The places of the calls named `call` among the events of a factory call.
Places(events, call) == {i \in 1..Len(events) : events[i].call = call}

RemoteCalls == {"sts.get_caller_identity", "sts.get_session_token"}

\* The caller gave an MFA code: a string that is not empty.
Supplied(mfa_token) == mfa_token.t = "str" /\ mfa_token.s # ""

\* The lookup of a factory call missed: the session cache answered None.
Missed(call) ==
    /\ call.events[1].call = "session_cache.get_session_token"
    /\ call.events[1].ret = Return(None)

\* C1: on a warm cache (an unexpired entry under "temporary_session") the
\* factory returns exactly that entry, calls neither get_caller_identity nor
\* get_session_token, does not prompt and does not write the cache.
C1_WarmCacheNoRemoteCall ==
    [][(/\ Called(FACTORY)
        /\ SESSION_KEY \in DOMAIN cache
        /\ ExpirationInstant(cache[SESSION_KEY]) > now)
       => /\ last'.outcome = Return(cache[SESSION_KEY])
          /\ \A i \in 1..Len(last'.events) :
                 last'.events[i].call = "session_cache.get_session_token"
          /\ cache' = cache
          /\ gst_calls' = gst_calls]_vars

C1_Witness ==
    /\ last.op = FACTORY
    /\ ~last.outcome.raised
    /\ Len(last.events) = 1
    /\ SESSION_KEY \in DOMAIN cache
    /\ last.outcome.value = cache[SESSION_KEY]
    /\ ExpirationInstant(cache[SESSION_KEY]) > last.at

\* C2: from a cold cache, a first factory call that succeeds has made exactly
\* one exchange, and every call that follows a successful one while the
\* returned session's expiration is in the future returns the same session
\* and sends no get_session_token request: the exchange count stays where the
\* first call left it, at 1.
C2_ExchangeOnlyOnce ==
    [][Called(FACTORY)
       => /\ (last.op = "init" /\ ~last'.outcome.raised) => gst_calls' = 1
          /\ (/\ last.op = FACTORY
              /\ ~last.outcome.raised
              /\ ExpirationInstant(last.outcome.value) > now)
             => /\ last'.outcome = last.outcome
                /\ Places(last'.events, "sts.get_session_token") = {}
                /\ gst_calls' = gst_calls]_vars

C2_Witness ==
    /\ last.op = FACTORY
    /\ last.after.op = FACTORY
    /\ ~last.outcome.raised
    /\ Len(last.events) = 1
    /\ gst_calls = 1
    /\ ExpirationInstant(last.outcome.value) > last.at

\* C3: SessionCache.get_session_token answers None for every entry whose
\* expiration is at or before the current time (the boundary included).
C3_BoundaryIsExpired ==
    [][(/\ Called(GET)
        /\ last'.key \in DOMAIN cache
        /\ ExpirationInstant(cache[last'.key]) <= now)
       => last'.outcome = Return(None)]_vars

\* C4: for every key holding a session that expires after the current time,
\* SessionCache.get_session_token returns the stored entry as it is stored
\* (its expiration a string or a datetime, as held) and leaves the store alone.
C4_ValidEntryReturnedUnchanged ==
    [][(/\ Called(GET)
        /\ last'.key \in DOMAIN cache
        /\ ExpirationInstant(cache[last'.key]) > now)
       => /\ last'.outcome = Return(cache[last'.key])
          /\ cache' = cache]_vars

C4_Witness ==
    /\ last.op = GET
    /\ last.key \in DOMAIN cache
    /\ last.outcome = Return(cache[last.key])
    /\ cache[last.key].Credentials.Expiration.t = "str"
    /\ ExpirationInstant(cache[last.key]) > last.at

\* C5: when the entry under "temporary_session" expired before the current
\* time, the factory's lookup answers None and the factory starts a fresh
\* exchange; when the exchange succeeds, its response replaces the entry and
\* is what the call returns.
C5_ExpiredIsRefreshed ==
    [][(/\ Called(FACTORY)
        /\ SESSION_KEY \in DOMAIN cache
        /\ ExpirationInstant(cache[SESSION_KEY]) < now)
       => LET ev == last'.events
          IN  /\ Missed(last')
              /\ Places(ev, "sts.get_caller_identity") # {}
              /\ (\E i \in Places(ev, "sts.get_caller_identity") : ~ev[i].ret.raised)
                 => Cardinality(Places(ev, "sts.get_session_token")) = 1
              /\ ~last'.outcome.raised
                 => /\ \E i \in Places(ev, "sts.get_session_token") :
                           ev[i].ret = last'.outcome
                    /\ cache' = [cache EXCEPT ![SESSION_KEY] = last'.outcome.value]]_vars

C5_Witness ==
    /\ last.op = FACTORY
    /\ ~last.outcome.raised
    /\ \E i \in 1..Len(last.log) :
           /\ last.log[i].msg = "Session expires at %s, currently %s, expired:%s"
           /\ last.log[i].args.expired
           /\ last.log[i].args.expiration.v < last.at
    /\ Places(last.events, "sts.get_session_token") # {}
    /\ cache[SESSION_KEY] = last.outcome.value

\* C6: for a key the store does not hold, SessionCache.get_session_token
\* returns None, raises nothing and leaves the store unchanged.
C6_AbsentKeyIsMiss ==
    [][(Called(GET) /\ last'.key \notin DOMAIN cache)
       => /\ last'.outcome = Return(None)
          /\ cache' = cache]_vars

C6_Witness ==
    /\ last.op = GET
    /\ last.key \notin DOMAIN cache
    /\ last.outcome = Return(None)

\* C7: cache_session(key, data) followed by get_session_token(key), with
\* data's expiration after the time of the lookup, returns data unchanged,
\* whatever the store held under key before.
C7_RoundTrip ==
    (/\ last.op = GET
     /\ last.after.op = CACHE_SESSION
     /\ last.after.key = last.key
     /\ ExpirationInstant(last.after.data) > last.at)
    => last.outcome = Return(last.after.data)

C7_Witness ==
    /\ last.op = GET
    /\ last.after.op = CACHE_SESSION
    /\ last.after.key = last.key
    /\ ExpirationInstant(last.after.data) > last.at
    /\ last.outcome = Return(last.after.data)

\* The user of an identity ARN: what follows its last '/', all of it when it
\* holds none.
IsUserOf(user, arn) ==
    /\ Len(user) <= Len(arn)
    /\ user = SubSeq(arn, Len(arn) - Len(user) + 1, Len(arn))
    /\ \A i \in 1..Len(user) : user[i] # "/"
    /\ Len(user) < Len(arn) => arn[Len(arn) - Len(user)] = "/"

\* C8: on a miss with an MFA code supplied, the factory calls
\* get_caller_identity, then get_session_token with a duration of 43200
\* seconds, the serial number arn:aws:iam::{account}:mfa/{user} and the code
\* supplied; it stores the response under "temporary_session" and returns it.
C8_ColdPathExchange ==
    (last.op = FACTORY /\ Missed(last) /\ Supplied(last.mfa_token))
    => LET ev == last.events
       IN  /\ Len(ev) >= 2
           /\ ev[2].call = "sts.get_caller_identity"
           /\ ~ev[2].ret.raised
              => /\ Len(ev) >= 3
                 /\ ev[3].call = "sts.get_session_token"
                 /\ ev[3].DurationSeconds = 43200
                 /\ ev[3].TokenCode = last.mfa_token
                 /\ \E n \in 0..Len(ev[2].ret.value.Arn) :
                        LET arn == ev[2].ret.value.Arn
                            user == SubSeq(arn, Len(arn) - n + 1, Len(arn))
                        IN  /\ IsUserOf(user, arn)
                            /\ ev[3].SerialNumber =
                                   <<"a", "r", "n", ":", "a", "w", "s", ":",
                                     "i", "a", "m", ":", ":">>
                                   \o ev[2].ret.value.Account
                                   \o <<":", "m", "f", "a", "/">> \o user
                 /\ ~ev[3].ret.raised
                    => /\ Len(ev) = 4
                       /\ ev[4] = [call |-> "session_cache.cache_session",
                                   key |-> SESSION_KEY, data |-> ev[3].ret.value]
                       /\ last.outcome = ev[3].ret
                       /\ cache[SESSION_KEY] = ev[3].ret.value

C8_Witness ==
    /\ last.op = FACTORY
    /\ Missed(last)
    /\ last.mfa_token = Str("token")
    /\ Len(last.events) = 4
    /\ last.events[2].ret.value.Arn = <<"u", "/", "p", "/", "f">>
    /\ last.events[3].SerialNumber =
           <<"a", "r", "n", ":", "a", "w", "s", ":", "i", "a", "m", ":", ":",
             "1", "2", ":", "m", "f", "a", "/", "f">>
    /\ ~last.outcome.raised
    /\ cache[SESSION_KEY] = last.outcome.value

\* C9: when get_caller_identity or get_session_token fails, the factory call
\* ends with that error unchanged and calls nothing after it, has sent at most
\* one exchange and prompted at most once, and leaves the cache as it was.
C9_FailureSurfaces ==
    [][(/\ Called(FACTORY)
        /\ \E i \in 1..Len(last'.events) :
               last'.events[i].call \in RemoteCalls /\ last'.events[i].ret.raised)
       => LET ev == last'.events
          IN  /\ ev[Len(ev)].call \in RemoteCalls
              /\ ev[Len(ev)].ret.raised
              /\ last'.outcome = ev[Len(ev)].ret
              /\ Cardinality(Places(ev, "sts.get_session_token")) <= 1
              /\ Cardinality(Places(ev, "sts.get_caller_identity")) <= 1
              /\ Cardinality(Places(ev, "input")) <= 1
              /\ cache' = cache]_vars

C9_Witness ==
    /\ last.op = FACTORY
    /\ last.outcome = Raise(ClientError("GetSessionToken"))
    /\ Places(last.events, "input") # {}
    /\ SESSION_KEY \in DOMAIN cache

\* C10: the factory prompts for the MFA code exactly when its cache lookup
\* missed and the caller supplied no code, and then before any remote call.
C10_PromptOnlyWhenNeeded ==
    last.op = FACTORY
    => LET ev == last.events
       IN  /\ (Places(ev, "input") # {}) <=> (Missed(last) /\ ~Supplied(last.mfa_token))
           /\ \A i \in Places(ev, "input") :
                  \A j \in 1..Len(ev) : ev[j].call \in RemoteCalls => i < j

C10_Witness ==
    /\ last.op = FACTORY
    /\ last.mfa_token = None
    /\ Places(last.events, "input") # {}
    /\ Places(last.events, "sts.get_session_token") # {}

ASSUME_ROLE_CREDENTIALS == "MFASessionProvider.assume_role_credentials"

ASSUME_ROLE_SESSION == "MFASessionProvider.assume_role_session"

GET_USER == "MFASessionProvider.get_user"

CacheCalls == {"session_cache.get_session_token", "session_cache.cache_session"}

\* The session was built with the keys and the token of these credentials.
BuiltFrom(session, credentials) ==
    /\ session.properties["aws_access_key_id"] = Str(credentials.AccessKeyId)
    /\ session.properties["aws_secret_access_key"] = Str(credentials.SecretAccessKey)
    /\ session.properties["aws_session_token"] = Str(credentials.SessionToken)

\* C11: role credentials are never cached. Every call of
\* assume_role_credentials or assume_role_session sends exactly one
\* assume_role request, made with the provider's base credentials, the given
\* role ARN, the given session name and a duration of 3600 seconds; a call
\* that succeeds returns the credentials of that request's response (or the
\* session built from them); the call neither reads nor writes the session
\* cache; so each call adds one to the number of requests sent.
C11_RoleCredentialsNeverCached ==
    [][Called(ASSUME_ROLE_CREDENTIALS) \/ Called(ASSUME_ROLE_SESSION)
       => LET ev == last'.events
              sent == Places(ev, "sts.assume_role")
          IN  /\ Cardinality(sent) = 1
              /\ assume_role_calls' = assume_role_calls + 1
              /\ \A i \in sent :
                     /\ ev[i].RoleArn = last'.role_arn
                     /\ ev[i].RoleSessionName = last'.session_name
                     /\ ev[i].DurationSeconds = 3600
                     /\ BuiltFrom(ev[i].session, mfa_provider._session_data.Credentials)
                     /\ last'.outcome.raised = ev[i].ret.raised
                     /\ ~ev[i].ret.raised /\ last'.op = ASSUME_ROLE_CREDENTIALS
                            => last'.outcome = Return(ev[i].ret.value.Credentials)
                     /\ ~ev[i].ret.raised /\ last'.op = ASSUME_ROLE_SESSION
                            => BuiltFrom(last'.outcome.value, ev[i].ret.value.Credentials)
              /\ \A i \in 1..Len(ev) : ev[i].call \notin CacheCalls
              /\ cache' = cache /\ gst_calls' = gst_calls]_vars

\* A second call in a row has sent a second request, while the cache holds the
\* base session.
C11_Witness ==
    /\ last.op = ASSUME_ROLE_CREDENTIALS
    /\ ~last.outcome.raised
    /\ last.outcome.value.AccessKeyId = "role_access_key_id"
    /\ assume_role_calls = 2
    /\ SESSION_KEY \in DOMAIN cache

SSO_TEMPORARY_CREDENTIALS == "SSOSessionProvider.temporary_credentials"

SSO_GET_USER == "SSOSessionProvider.get_user"

\* C12: SSOSessionProvider.temporary_credentials always fails: whatever the
\* provider was built with and whatever was called before, it raises
\* NotImplementedError (an exception a caller can catch), and it makes no
\* login and no remote call on the way.
C12_SsoTemporaryCredentialsFails ==
    last.op = SSO_TEMPORARY_CREDENTIALS
    => /\ last.outcome.raised
       /\ last.outcome.value =
              NotImplementedError("SSO session uses token, not credentials")
       /\ last.events = <<>>

\* The accessor failed on a provider that had just assumed a role.
C12_Witness ==
    /\ last.op = SSO_TEMPORARY_CREDENTIALS
    /\ last.after = "SSOSessionProvider.assume_role_session"
    /\ last.outcome.raised
    /\ sso_provider._sso_region = Str("eu-north-1")

\* C13: when list_available_roles yields no role, SSOSessionProvider.get_user
\* fails with the error "No accessible roles found", and it has neither assumed
\* a role nor called get_caller_identity: listing the roles is all it did.
C13_NoAccessibleRoles ==
    /\ last.op = SSO_GET_USER
    /\ last.events[1].call = "list_available_roles"
    /\ last.events[1].ret = Return(<<>>)
    => /\ last.outcome = Raise(Exception("No accessible roles found"))
       /\ Len(last.events) = 1
       /\ \A i \in 1..Len(last.events) :
              last.events[i].call \notin
                  {"self.assume_role_session", "get_boto3_session",
                   "sts.get_caller_identity"}

C13_Witness ==
    /\ last.op = SSO_GET_USER
    /\ last.events[1].ret = Return(<<>>)
    /\ last.outcome.raised

\* The places of sep in a text, and the k-th of them.
SepPlaces(text, sep) == {i \in 1..Len(text) : text[i] = sep}

SepPlace(text, sep, k) ==
    CHOOSE i \in SepPlaces(text, sep) :
        Cardinality({j \in SepPlaces(text, sep) : j < i}) = k - 1

\* The k-th segment of a text, counted from 0: what lies between the k-th sep
\* and the next one (or the ends of the text).
Segment(text, sep, k) ==
    LET n == Cardinality(SepPlaces(text, sep))
        from == IF k = 0 THEN 1 ELSE SepPlace(text, sep, k) + 1
        to == IF k = n THEN Len(text) ELSE SepPlace(text, sep, k + 1) - 1
    IN  SubSeq(text, from, to)

SegmentCount(text, sep) == Cardinality(SepPlaces(text, sep)) + 1

\* C14: an ARN text of six or more ':'-separated segments parses, with
\* partition, service, region and account its segments 1 to 4. With seven
\* segments the resource type and the resource are segments 5 and 6 as they
\* stand, '/' included. With six segments, segment 5 is cut at its first '/'
\* into resource type and resource when it has one; when it has none the
\* resource type is None and the resource is segment 5.
C14_ArnParsing ==
    last.op = "ARN" /\ SegmentCount(last.arn, ":") >= 6
    => LET text == last.arn
           n == SegmentCount(text, ":")
           seg(k) == Segment(text, ":", k)
           parsed == last.outcome.value
       IN  /\ ~last.outcome.raised
           /\ parsed.partition = Str(seg(1))
           /\ parsed.service = Str(seg(2))
           /\ parsed.region = Str(seg(3))
           /\ parsed.account = Str(seg(4))
           /\ n = 7 => /\ parsed.resource_type = Str(seg(5))
                       /\ parsed.resource = Str(seg(6))
           /\ n = 6 /\ SepPlaces(seg(5), "/") = {}
                  => /\ parsed.resource_type = None
                     /\ parsed.resource = Str(seg(5))
           /\ n = 6 /\ SepPlaces(seg(5), "/") # {}
                  => LET i == SepPlace(seg(5), "/", 1)
                     IN  /\ parsed.resource_type = Str(SubSeq(seg(5), 1, i - 1))
                         /\ parsed.resource = Str(SubSeq(seg(5), i + 1, Len(seg(5))))

\* A text of six segments whose segment 5 holds two '/': the resource keeps the
\* second one.
C14_Witness ==
    /\ last.op = "ARN"
    /\ SegmentCount(last.arn, ":") = 6
    /\ ~last.outcome.raised
    /\ last.outcome.value.resource_type = Str(<<"a">>)
    /\ last.outcome.value.resource = Str(<<"/">>)

\* C15: the session cache never evicts. A lookup leaves the store as it was,
\* whatever it answers (hit, absent key, expired entry); no step removes a
\* key; and the store changes only in a factory call whose exchange
\* succeeded, by the cache_session that stores the response of that exchange
\* under its key and leaves every other entry alone.
C15_NeverEvicts ==
    [][/\ Called(GET) => cache' = cache
       /\ DOMAIN cache \subseteq DOMAIN cache'
       /\ cache' # cache
              => /\ Called(FACTORY)
                 /\ LET ev == last'.events
                    IN  \E i \in Places(ev, "sts.get_session_token") :
                            /\ i + 1 = Len(ev)
                            /\ ~ev[i].ret.raised
                            /\ ev[i + 1].call = "session_cache.cache_session"
                            /\ ev[i + 1].data = ev[i].ret.value
                            /\ cache' = [k \in DOMAIN cache \cup {ev[i + 1].key} |->
                                             IF k = ev[i + 1].key THEN ev[i + 1].data
                                             ELSE cache[k]]]_vars

\* A lookup has just found an expired entry and answered None, and the entry
\* is still stored.
C15_Witness ==
    /\ last.op = GET
    /\ last.outcome = Return(None)
    /\ last.key \in DOMAIN cache
    /\ ExpirationInstant(cache[last.key]) < now

\* C16: cache_session(key, data) is an unconditional upsert. Whatever the data
\* (already expired or not) and whatever the key held before, afterwards the
\* store holds data under key, and every other key is stored or not as before,
\* with the entry it had.
C16_UnconditionalUpsert ==
    [][Called(CACHE_SESSION)
       => /\ last'.key \in DOMAIN cache'
          /\ cache'[last'.key] = last'.data
          /\ \A k \in Keys \ {last'.key} :
                 /\ k \in DOMAIN cache' <=> k \in DOMAIN cache
                 /\ k \in DOMAIN cache => cache'[k] = cache[k]]_vars

\* Expired data has replaced the valid entry the call before had stored under
\* the same key, next to the entry of another key.
C16_Witness ==
    /\ last.op = CACHE_SESSION
    /\ last.after.op = CACHE_SESSION
    /\ last.after.key = last.key
    /\ last.after.data # last.data
    /\ ExpirationInstant(last.after.data) > last.at
    /\ ExpirationInstant(last.data) < last.at
    /\ cache[last.key] = last.data
    /\ DOMAIN cache = Keys

StsCalls == {"sts.assume_role", "sts.get_caller_identity", "sts.get_session_token"}

\* C17: MFASessionProvider hands on the failure of its exchange as it is.
\* When the assume_role request of assume_role_credentials or
\* assume_role_session fails, or the get_caller_identity request of get_user,
\* the call ends with that very error; it has sent no other request, has built
\* no session after the failure, and leaves the base session it holds as it
\* was.
C17_ProviderFailurePropagates ==
    [][/\ Called(ASSUME_ROLE_CREDENTIALS) \/ Called(ASSUME_ROLE_SESSION)
              \/ Called(GET_USER)
       /\ \E i \in 1..Len(last'.events) :
              last'.events[i].call \in StsCalls /\ last'.events[i].ret.raised
       => LET ev == last'.events
              failed == ev[Len(ev)]
          IN  /\ failed.call \in StsCalls
              /\ failed.ret.raised
              /\ last'.outcome = failed.ret
              /\ Cardinality({i \in 1..Len(ev) : ev[i].call \in StsCalls}) = 1
              /\ mfa_provider' = mfa_provider
              /\ cache' = cache]_vars

\* assume_role_session has failed on a provider whose base session has expired.
C17_Witness ==
    /\ last.op = ASSUME_ROLE_SESSION
    /\ last.outcome = Raise(ClientError("AssumeRole"))
    /\ ExpirationInstant(mfa_provider._session_data) < now

\* C18: with a role enumeration that is not empty, SSOSessionProvider.get_user
\* uses its first role and no other. It calls assume_role_session with the ARN
\* of that role, session name "test" and region "eu-west-1", which asks
\* get_boto3_session once, for exactly that account and role name; only after
\* that, on the session it got, it calls get_caller_identity; and from a user
\* id "<kind>:<name>:<session>" it returns <name>, the part between the first
\* two ':'.
C18_SsoGetUserFirstRole ==
    /\ last.op = SSO_GET_USER
    /\ ~last.events[1].ret.raised
    /\ Len(last.events[1].ret.value) > 0
    => LET ev == last.events
           first == ev[1].ret.value[1]
           sessions == Places(ev, "get_boto3_session")
           identities == Places(ev, "sts.get_caller_identity")
       IN  /\ Places(ev, "list_available_roles") = {1}
           /\ Places(ev, "self.assume_role_session") = {2}
           /\ ev[2].role_arn = Str(RoleArn(first[1], first[3]))
           /\ ev[2].session_name = Str("test")
           /\ ev[2].region_name = Str("eu-west-1")
           /\ sessions = {3}
           /\ ev[3].account_id = Str(first[1])
           /\ ev[3].role_name = Str(first[3])
           /\ ev[3].region = Str("eu-west-1")
           /\ ev[3].start_url = sso_provider._start_url
           /\ ev[3].sso_region = sso_provider._sso_region
           /\ ev[3].ret.raised => identities = {} /\ last.outcome = ev[3].ret
           /\ ~ev[3].ret.raised
                  => /\ identities = {4}
                     /\ Len(ev) = 4
                     /\ ev[4].session = ev[3].ret.value
                     /\ ev[4].ret.raised => last.outcome = ev[4].ret
                     /\ ~ev[4].ret.raised
                            /\ SegmentCount(ev[4].ret.value.UserId, ":") >= 2
                            => last.outcome =
                                   Return(Str(Segment(ev[4].ret.value.UserId, ":", 1)))

\* Two roles were listed, the first one was assumed, and the user id had three
\* parts.
C18_Witness ==
    /\ last.op = SSO_GET_USER
    /\ ~last.events[1].ret.raised
    /\ Len(last.events[1].ret.value) = 2
    /\ Len(last.events) = 4
    /\ ~last.events[4].ret.raised
    /\ SegmentCount(last.events[4].ret.value.UserId, ":") = 3
    /\ last.outcome = Return(Str(<<"u">>))
    /\ last.events[3].role_name = Str(<<"c", "/", "d">>)

\* C19: the factory's use of its cache. In every factory call, successful or
\* failing, the cache is read and written under "temporary_session" only, and
\* the entries of other keys stay as they are; a write comes only after a
\* get_session_token request of the same call has succeeded, and stores its
\* response. So the entry under "temporary_session" changes only in a call
\* whose exchange succeeded, to the whole response of that exchange, which is
\* also what the call returns: at all times the entry is the initial one or
\* the response of the most recent successful exchange.
C19_FactoryCacheUse ==
    [][/\ ~Called(FACTORY) => cache' = cache
       /\ Called(FACTORY)
          => LET ev == last'.events
                 ok == {i \in Places(ev, "sts.get_session_token") : ~ev[i].ret.raised}
                 reads == Places(ev, "session_cache.get_session_token")
                 writes == Places(ev, "session_cache.cache_session")
             IN  /\ \A i \in reads \cup writes : ev[i].key = SESSION_KEY
                 /\ \A k \in Keys \ {SESSION_KEY} :
                        /\ k \in DOMAIN cache' <=> k \in DOMAIN cache
                        /\ k \in DOMAIN cache => cache'[k] = cache[k]
                 /\ \A j \in writes :
                        \E i \in ok : i < j /\ ev[j].data = ev[i].ret.value
                 /\ ok = {} => writes = {} /\ cache' = cache
                 /\ \A i \in ok :
                        /\ SESSION_KEY \in DOMAIN cache'
                        /\ cache'[SESSION_KEY] = ev[i].ret.value
                        /\ last'.outcome = Return(ev[i].ret.value)]_vars

\* A call has failed at its exchange, and the store still holds the response of
\* the successful exchange before it (the entries a store starts with carry
\* their expiration as a string, a response carries a datetime).
C19_Witness ==
    /\ last.op = FACTORY
    /\ last.outcome = Raise(ClientError("GetSessionToken"))
    /\ gst_calls = 2
    /\ SESSION_KEY \in DOMAIN cache
    /\ cache[SESSION_KEY].Credentials.Expiration.t = "datetime"
    /\ DOMAIN cache = Keys

\* The places, in the interleaving, of the step `pc` of invocation p.
StepPlaces(p, pc) ==
    {i \in 1..Len(last.steps) :
         last.steps[i].invocation = p /\ last.steps[i].pc = pc}

\* Both invocations have looked up, and neither had written when they did.
BothLookedUpFirst ==
    /\ last.op = "interleaving"
    /\ \A p \in Invocations : StepPlaces(p, "lookup") # {}
    /\ \A p \in Invocations, q \in Invocations :
           \A i \in StepPlaces(p, "lookup"), j \in StepPlaces(q, "store") : i < j

\* The get_session_token requests of an invocation that succeeded.
Exchanged(p) ==
    {i \in Places(calls[p].events, "sts.get_session_token") :
         ~calls[p].events[i].ret.raised}

\* C20: the race on the shared cache. An invocation that looks up after the
\* other has written makes no exchange (the guarantee of sequential calls).
\* But when both invocations, on a cold store, look up before either writes,
\* both miss and both go to STS: each one that is past its requests has called
\* get_caller_identity and, when that succeeded, has sent one get_session_token
\* request of its own; each one that is done and whose exchange succeeded has
\* returned the response of its own exchange; and once both are done the store
\* holds the response of whichever wrote last.
C20_RaceOnSharedCache ==
    /\ last.op = "interleaving"
       => \A p \in Invocations, q \in Invocations :
              (\E j \in StepPlaces(p, "store"), i \in StepPlaces(q, "lookup") : j < i)
              => Exchanges(calls[q].events) = 0
    /\ BothLookedUpFirst
       => /\ \A p \in Invocations :
                 LET ev == calls[p].events
                     identities == Places(ev, "sts.get_caller_identity")
                 IN  /\ ev[1].ret = Return(None)
                     /\ calls[p].pc \in {"store", "done"}
                            => /\ Cardinality(identities) = 1
                               /\ \A i \in identities :
                                      ~ev[i].ret.raised => Exchanges(ev) = 1
                     /\ calls[p].pc = "done"
                            => \A i \in Exchanged(p) :
                                   calls[p].outcome = Return(ev[i].ret.value)
          /\ (\A p \in Invocations : calls[p].pc = "done")
                 => \A p \in Invocations :
                        \A j \in StepPlaces(p, "store") :
                            (\A q \in Invocations :
                                 \A k \in StepPlaces(q, "store") : k <= j)
                            => /\ SESSION_KEY \in DOMAIN cache
                               /\ cache[SESSION_KEY] = calls[p].outcome.value

\* Both invocations missed, both exchanged (two requests for one session),
\* each returned its own response, and the store holds that of invocation 1,
\* which wrote last.
C20_Witness ==
    /\ BothLookedUpFirst
    /\ \A p \in Invocations : calls[p].pc = "done" /\ Exchanged(p) # {}
    /\ gst_calls = 2
    /\ calls[1].outcome # calls[2].outcome
    /\ \E j \in StepPlaces(1, "store") : \A k \in StepPlaces(2, "store") : k < j
    /\ cache[SESSION_KEY] = calls[1].outcome.value
    /\ cache[SESSION_KEY] # calls[2].outcome.value

TEMPORARY_CREDENTIALS == "MFASessionProvider.temporary_credentials"

CREATE == "MFASessionProvider.create"

\* C21: the provider holds a snapshot. The base session a provider is built
\* with is the one the factory gave to create, and no step changes it
\* afterwards, whatever happens to the cache or the clock. temporary_credentials
\* returns the credentials of that session and calls nothing.
\* assume_role_credentials, assume_role_session and get_user build their STS
\* client from those credentials and send their request whether or not the
\* session has expired; no call on the provider reads or writes the session
\* cache, prompts for an MFA code or sends a get_session_token request.
C21_ProviderSnapshot ==
    [][/\ mfa_provider # None => mfa_provider' = mfa_provider
       /\ Called(CREATE) /\ ~last'.outcome.raised
              => /\ mfa_provider' = last'.outcome.value
                 /\ LET given == last'.events[Len(last'.events)]
                    IN  /\ given.call \in CacheCalls
                        /\ mfa_provider'._session_data =
                               IF given.call = "session_cache.cache_session"
                               THEN given.data ELSE given.ret.value
       /\ Called(TEMPORARY_CREDENTIALS)
              => /\ last'.outcome = Return(mfa_provider._session_data.Credentials)
                 /\ last'.events = <<>>
       /\ Called(TEMPORARY_CREDENTIALS) \/ Called(ASSUME_ROLE_CREDENTIALS)
              \/ Called(ASSUME_ROLE_SESSION) \/ Called(GET_USER)
              => LET ev == last'.events
                 IN  /\ \A i \in 1..Len(ev) :
                            /\ ev[i].call \notin CacheCalls
                            /\ ev[i].call \notin {"input", "sts.get_session_token"}
                            /\ ev[i].call \in {"sts.assume_role",
                                               "sts.get_caller_identity"}
                                   => BuiltFrom(ev[i].session,
                                                mfa_provider._session_data.Credentials)
                     /\ last'.op # TEMPORARY_CREDENTIALS
                            => \E i \in 1..Len(ev) :
                                   ev[i].call \in {"sts.assume_role",
                                                   "sts.get_caller_identity"}
                     /\ cache' = cache
                     /\ gst_calls' = gst_calls]_vars

\* temporary_credentials has answered with the credentials of a base session
\* that has expired and that the cache no longer holds, after a role was
\* assumed with them.
C21_Witness ==
    /\ last.op = TEMPORARY_CREDENTIALS
    /\ last.outcome = Return(mfa_provider._session_data.Credentials)
    /\ ExpirationInstant(mfa_provider._session_data) < now
    /\ SESSION_KEY \in DOMAIN cache
    /\ cache[SESSION_KEY] # mfa_provider._session_data
    /\ assume_role_calls > 0

====
